---- MODULE Spec2Model ----
(***************************************************************************)
(* Admission gate and task lifecycle of the MinerU RunPod API server       *)
(* (src/runpod_api/server.py).                                             *)
(*                                                                         *)
(* The server runs on one asyncio event loop.  A coroutine runs until it   *)
(* reaches an `await`; each action below is the run of one handler from    *)
(* one `await` of its source to the next.  The asyncio.Lock of TaskStore   *)
(* is never held across an `await`, so every TaskStore method is one       *)
(* atomic operation.  The loop may switch at every `await` of a handler    *)
(* (also at those asyncio would run through): this only adds               *)
(* interleavings to those asyncio produces.                                *)
(***************************************************************************)
EXTENDS Integers, Sequences, FiniteSets

VARIABLES
    semaphore,   \* _semaphore: [value, waiters, woken]
    tasks,       \* task_store._tasks: task id -> record
    now,         \* datetime.utcnow(), in hours
    pc,          \* where each request (and its background job) stands
    file,        \* the content a request in flight has read
    endpoint,    \* the synchronous endpoint a request in flight was sent to
    resp,        \* the HTTP status each request was answered with (0: not yet)
    acquired,    \* how often each request/job entered `async with _semaphore`
    released,    \* how often each request/job left it
    parser_calls, \* how often each request/job invoked aio_do_parse
    authorization, \* the request received last and its Authorization header
    output_dir,  \* the requests/jobs whose scratch output directory exists
    cleanup_task, \* the task running periodic_cleanup
    result_dir   \* a result directory being resolved, and by which app

vars == <<semaphore, tasks, now, pc, file, endpoint, resp,
          acquired, released, parser_calls, authorization, output_dir,
          cleanup_task, result_dir>>

----------------------------------------------------------------------------
(* Configuration (read once from the environment at start).                *)

MAX_CONCURRENT == 2

MAX_FILE_SIZE_MB == 100

MAX_FILE_SIZE == MAX_FILE_SIZE_MB * 1024 * 1024

TASK_EXPIRE_HOURS == 24

(* Bounds of the model.                                                    *)

NumSync == 2

NumAsync == 2

\* The clock advances MaxTicks times, HoursPerTick hours each time.
MaxTicks == 1

HoursPerTick == 25

SyncReqs == 1..NumSync

AsyncReqs == (NumSync + 1)..(NumSync + NumAsync)

Procs == SyncReqs \cup AsyncReqs

None == "None"

\* TaskStatus
PENDING == "pending"

PROCESSING == "processing"

COMPLETED == "completed"

FAILED == "failed"

pdf_suffixes == {"pdf"}

image_suffixes == {"png", "jpg"}

\* Contents a client can send: at the limit, one byte above it, of an
\* unsupported type.
Files ==
    { [size |-> MAX_FILE_SIZE,     suffix |-> "pdf"],
      [size |-> MAX_FILE_SIZE + 1, suffix |-> "pdf"],
      [size |-> MAX_FILE_SIZE,     suffix |-> "txt"] }

NoFile == [size |-> 0, suffix |-> None]

----------------------------------------------------------------------------
(* asyncio.Semaphore, as the handlers use it.                              *)

\* Semaphore.locked(): no permit left, or somebody waits (no waiter is ever
\* cancelled here: background jobs are not cancelled).
locked(s) == s.value = 0 \/ Len(s.waiters) > 0

\* Semaphore._wake_up_next(): hand a permit to the first waiter not yet woken.
wake_up_next(s) ==
    LET idx == {i \in 1..Len(s.waiters) : s.waiters[i] \notin s.woken}
    IN  IF idx = {} THEN s
        ELSE LET i == CHOOSE i \in idx : \A j \in idx : i <= j
             IN  [s EXCEPT !.value = @ - 1, !.woken = @ \cup {s.waiters[i]}]

\* An exit of `async with` that keeps the permit.
release_skipped(s) == s

\* Semaphore.release(), called by __aexit__ on every exit of `async with`.
release(s) == wake_up_next([s EXCEPT !.value = @ + 1])

\* Semaphore.acquire() up to its first suspension: TRUE when the caller got
\* the permit at once.
acquire_fast(s) == ~locked(s)

\* acquire() that admits without taking a permit from the counter.
acquire_without_reserving(s, p) ==
    IF acquire_fast(s) THEN s ELSE [s EXCEPT !.waiters = Append(@, p)]

acquire(s, p) ==
    IF acquire_fast(s)
    THEN [s EXCEPT !.value = @ - 1]
    ELSE [s EXCEPT !.waiters = Append(@, p)]

\* The rest of Semaphore.acquire() once the waiter's future has a result.
RemoveWaiter(w, p) == SelectSeq(w, LAMBDA x : x # p)

acquire_resume(s, p) ==
    LET s1 == [s EXCEPT !.waiters = RemoveWaiter(@, p), !.woken = @ \ {p}]
    IN  IF s1.value > 0 THEN wake_up_next(s1) ELSE s1

\* A handler without the probe.
at_capacity_never(s) == FALSE

\* A probe that looks at the counter alone and not at the waiters.
at_capacity_by_value(s) == s.value = 0

\* The capacity probe of the synchronous handlers: `if _semaphore.locked()`.
at_capacity(s) == locked(s)

----------------------------------------------------------------------------
(* TaskStore                                                               *)

\* Time is counted in hours.  datetime.isoformat() writes a time as its date
\* and its time of day, datetime.fromisoformat() reads that back.
isoformat(t) == <<t \div 24, t % 24>>

fromisoformat(s) == s[1] * 24 + s[2]

\* create() whose record starts as already picked up by its job.
create_started(ts, task_id, t) ==
    [x \in DOMAIN ts \cup {task_id} |->
        IF x = task_id
        THEN [task_id |-> task_id, status |-> PROCESSING, progress |-> 10,
              result |-> None, error |-> None,
              created_at |-> isoformat(t), updated_at |-> isoformat(t)]
        ELSE ts[x]]

create(ts, task_id, t) ==
    [x \in DOMAIN ts \cup {task_id} |->
        IF x = task_id
        THEN [task_id |-> task_id, status |-> PENDING, progress |-> 0,
              result |-> None, error |-> None,
              created_at |-> isoformat(t), updated_at |-> isoformat(t)]
        ELSE ts[x]]

\* update() that replaces the record by a fresh one holding kwargs instead
\* of merging kwargs into it.
update_replacing(ts, task_id, kwargs, t) ==
    IF task_id \in DOMAIN ts
    THEN [ts EXCEPT ![task_id] =
            [f \in DOMAIN ts[task_id] |->
                IF f = "updated_at" THEN isoformat(t)
                ELSE IF f \in DOMAIN kwargs THEN kwargs[f]
                ELSE create(ts, task_id,
                            fromisoformat(ts[task_id].created_at))[task_id][f]]]
    ELSE ts

\* update() that inserts a record when the id is absent.
update_or_create(ts, task_id, kwargs, t) ==
    LET ts1 == IF task_id \in DOMAIN ts THEN ts ELSE create(ts, task_id, t)
    IN  [ts1 EXCEPT ![task_id] =
            [f \in DOMAIN ts1[task_id] |->
                IF f = "updated_at" THEN isoformat(t)
                ELSE IF f \in DOMAIN kwargs THEN kwargs[f]
                ELSE ts1[task_id][f]]]

\* update() that does not touch updated_at.
update_keeping_time(ts, task_id, kwargs, t) ==
    IF task_id \in DOMAIN ts
    THEN [ts EXCEPT ![task_id] =
            [f \in DOMAIN ts[task_id] |->
                IF f \in DOMAIN kwargs THEN kwargs[f] ELSE ts[task_id][f]]]
    ELSE ts

\* kwargs is a record holding the fields to merge.
update(ts, task_id, kwargs, t) ==
    IF task_id \in DOMAIN ts
    THEN [ts EXCEPT ![task_id] =
            [f \in DOMAIN ts[task_id] |->
                IF f = "updated_at" THEN isoformat(t)
                ELSE IF f \in DOMAIN kwargs THEN kwargs[f]
                ELSE ts[task_id][f]]]
    ELSE ts

get(ts, task_id) == IF task_id \in DOMAIN ts THEN ts[task_id] ELSE None

\* What create() and update() hand back to their caller.
create_returns(ts, task_id, t) == create(ts, task_id, t)[task_id]

update_returns(ts, task_id, kwargs, t) ==
    get(update(ts, task_id, kwargs, t), task_id)

\* A sweep that also takes the records whose age is exactly the TTL.
expired_at_ttl(ts, t) ==
    {x \in DOMAIN ts :
        t - fromisoformat(ts[x].created_at) >= TASK_EXPIRE_HOURS}

expired(ts, t) ==
    {x \in DOMAIN ts :
        t - fromisoformat(ts[x].created_at) > TASK_EXPIRE_HOURS}

\* A sweep that deletes one expired record per run.
cleanup_expired_one_per_run(ts, t) ==
    LET e == expired(ts, t)
    IN  IF e = {} THEN ts
        ELSE [x \in DOMAIN ts \ {CHOOSE y \in e : \A z \in e : y <= z} |-> ts[x]]

cleanup_expired(ts, t) == [x \in DOMAIN ts \ expired(ts, t) |-> ts[x]]

\* `return len(expired)`
cleanup_expired_returns(ts, t) == Cardinality(expired(ts, t))

\* No result directory is being resolved.
NoCall == [site |-> None]

----------------------------------------------------------------------------
Init ==
    /\ semaphore = [value |-> MAX_CONCURRENT, waiters |-> <<>>, woken |-> {}]
    /\ tasks = <<>>
    /\ now = 0
    /\ pc = [p \in Procs |-> "idle"]
    /\ file = [p \in Procs |-> NoFile]
    /\ endpoint = [p \in Procs |-> None]
    /\ resp = [p \in Procs |-> 0]
    /\ acquired = [p \in Procs |-> 0]
    /\ released = [p \in Procs |-> 0]
    /\ parser_calls = [p \in Procs |-> 0]
    /\ authorization = [of |-> 0, header |-> <<>>]
    /\ output_dir = {}
    /\ cleanup_task = [pc |-> "sleeping", calls |-> 0, caught |-> 0,
                       cancelled |-> None]
    /\ result_dir = NoCall

----------------------------------------------------------------------------
(* Synchronous endpoints: POST /parse and POST /parse_url.                 *)

SyncEndpoints == {"parse", "parse_url"}

\* A request arrives (requests are numbered in the order they arrive): the
\* capacity probe, then `async with _semaphore`, up to
\* `await file.read()` resp. `await download_file(...)`.
SyncArrive(r, e) ==
    /\ pc[r] = "idle"
    /\ \A q \in SyncReqs : q < r => pc[q] # "idle"
    /\ IF at_capacity(semaphore)
       THEN /\ resp' = [resp EXCEPT ![r] = 503]
            /\ pc' = [pc EXCEPT ![r] = "done"]
            /\ endpoint' = endpoint
            /\ UNCHANGED <<semaphore, acquired>>
       ELSE /\ semaphore' = acquire(semaphore, r)
            /\ endpoint' = [endpoint EXCEPT ![r] = e]
            /\ IF acquire_fast(semaphore)
               THEN /\ acquired' = [acquired EXCEPT ![r] = @ + 1]
                    /\ pc' = [pc EXCEPT ![r] = "reading"]
               ELSE /\ pc' = [pc EXCEPT ![r] = "waiting"]
                    /\ UNCHANGED acquired
            /\ UNCHANGED resp
    /\ UNCHANGED <<cleanup_task, result_dir, output_dir, authorization, tasks, now, file, released, parser_calls>>

\* shutil.rmtree(output_path, ignore_errors=True), of a tree it can delete.
rmtree(dirs, p) == dirs \ {p}

\* Checks that let one byte more than the limit through.
early_error_above_limit(e, f, status200) ==
    IF e = "parse_url" /\ ~status200 THEN 400
    ELSE IF f.size > MAX_FILE_SIZE + 1 THEN 413
    ELSE IF f.suffix \notin pdf_suffixes \cup image_suffixes THEN 400
    ELSE 0

\* The HTTP error a handler body ends with before it reaches aio_do_parse,
\* 0 when it reaches it: download_file's status and size checks (parse_url),
\* parse_file's size check, process_file_bytes' file type check.
early_error(e, f, status200) ==
    IF e = "parse_url" /\ ~status200 THEN 400
    ELSE IF f.size > MAX_FILE_SIZE THEN 413
    ELSE IF f.suffix \notin pdf_suffixes \cup image_suffixes THEN 400
    ELSE 0

\* The upload is read (the download ends) and turns out to be f: the body runs
\* on to `await aio_do_parse(...)`, or raises and leaves `async with`.
SyncRead(r, f, status200) ==
    /\ pc[r] = "reading"
    /\ LET err == early_error(endpoint[r], f, status200)
       IN  IF err # 0
           THEN /\ semaphore' = release(semaphore)
                /\ released' = [released EXCEPT ![r] = @ + 1]
                /\ resp' = [resp EXCEPT ![r] = err]
                /\ pc' = [pc EXCEPT ![r] = "done"]
                /\ endpoint' = [endpoint EXCEPT ![r] = None]
                /\ UNCHANGED <<parser_calls, file, output_dir>>
           ELSE /\ output_dir' = output_dir \cup {r}     \* os.makedirs
                /\ parser_calls' = [parser_calls EXCEPT ![r] = @ + 1]
                /\ pc' = [pc EXCEPT ![r] = "parsing"]
                /\ file' = [file EXCEPT ![r] = f]
                /\ UNCHANGED <<semaphore, released, resp, endpoint>>
    /\ UNCHANGED <<cleanup_task, result_dir, authorization, tasks, now, acquired>>

\* aio_do_parse returns or raises: process_file_bytes returns the response or
\* raises HTTPException(500), its `finally` removes the output directory;
\* either way `async with` is left.
SyncParserReturn(r, ok) ==
    /\ pc[r] = "parsing"
    /\ r \in SyncReqs
    /\ output_dir' = rmtree(output_dir, r)
    /\ semaphore' = release(semaphore)
    /\ released' = [released EXCEPT ![r] = @ + 1]
    /\ resp' = [resp EXCEPT ![r] = IF ok THEN 200 ELSE 500]
    /\ pc' = [pc EXCEPT ![r] = "done"]
    /\ file' = [file EXCEPT ![r] = NoFile]
    /\ endpoint' = [endpoint EXCEPT ![r] = None]
    /\ UNCHANGED <<cleanup_task, result_dir, authorization, tasks, now, acquired, parser_calls>>

----------------------------------------------------------------------------
(* POST /parse_async and its background job.                               *)

\* A handler that runs the first statement of background_parse itself before
\* it answers.
parse_async_started(a, f) ==
    /\ pc[a] = "idle"
    /\ \A q \in AsyncReqs : q < a => pc[q] # "idle"
    /\ IF f.size > MAX_FILE_SIZE
       THEN /\ resp' = [resp EXCEPT ![a] = 413]
            /\ pc' = [pc EXCEPT ![a] = "done"]
            /\ UNCHANGED <<tasks, file>>
       ELSE /\ tasks' = update(create(tasks, a, now), a,
                               [status |-> PROCESSING, progress |-> 10], now)
            /\ file' = [file EXCEPT ![a] = f]
            /\ resp' = [resp EXCEPT ![a] = 200]
            /\ pc' = [pc EXCEPT ![a] = "acquire"]
    /\ UNCHANGED <<cleanup_task, result_dir, output_dir, authorization, semaphore, now, endpoint, acquired, released, parser_calls>>

\* A handler that probes the gate as the synchronous ones do.
parse_async_probing(a, f) ==
    /\ pc[a] = "idle"
    /\ \A q \in AsyncReqs : q < a => pc[q] # "idle"
    /\ IF at_capacity(semaphore)
       THEN /\ resp' = [resp EXCEPT ![a] = 503]
            /\ pc' = [pc EXCEPT ![a] = "done"]
            /\ UNCHANGED <<tasks, file>>
       ELSE /\ tasks' = create(tasks, a, now)
            /\ file' = [file EXCEPT ![a] = f]
            /\ resp' = [resp EXCEPT ![a] = 200]
            /\ pc' = [pc EXCEPT ![a] = "scheduled"]
    /\ UNCHANGED <<cleanup_task, result_dir, output_dir, authorization, semaphore, now, endpoint, acquired, released, parser_calls>>

\* The handler, from the request to its response: the size check,
\* task_store.create, background_tasks.add_task.  Starlette runs the job
\* after the response is sent.
parse_async(a, f) ==
    /\ pc[a] = "idle"
    /\ \A q \in AsyncReqs : q < a => pc[q] # "idle"
    /\ IF f.size > MAX_FILE_SIZE
       THEN /\ resp' = [resp EXCEPT ![a] = 413]
            /\ pc' = [pc EXCEPT ![a] = "done"]
            /\ UNCHANGED <<tasks, file>>
       ELSE /\ tasks' = create(tasks, a, now)
            /\ file' = [file EXCEPT ![a] = f]
            /\ resp' = [resp EXCEPT ![a] = 200]
            /\ pc' = [pc EXCEPT ![a] = "scheduled"]
    /\ UNCHANGED <<cleanup_task, result_dir, output_dir, authorization, semaphore, now, endpoint, acquired, released, parser_calls>>

\* A success write that also fills in `error`.
completed_fields_with_error ==
    [status |-> COMPLETED, progress |-> 100, result |-> "ParseResponse",
     error |-> ""]

\* A failure write that leaves `error` out.
failed_fields_without_error(code) == [status |-> FAILED]

\* A failure write that starts the progress over.
failed_fields_resetting_progress(code) ==
    [status |-> FAILED, progress |-> 0, error |-> "500: parse error"]

\* The fields background_parse writes on success and on failure.
completed_fields == [status |-> COMPLETED, progress |-> 100,
                     result |-> "ParseResponse"]

\* str(e) of the HTTPException that process_file_bytes raised with `code`.
failed_fields(code) ==
    [status |-> FAILED,
     error |-> IF code = 400 THEN "400: Unsupported file type"
               ELSE "500: parse error"]

\* background_parse, first statement: PROCESSING is written.
JobStart(a) ==
    /\ pc[a] = "scheduled"
    /\ tasks' = update(tasks, a, [status |-> PROCESSING, progress |-> 10], now)
    /\ pc' = [pc EXCEPT ![a] = "acquire"]
    /\ UNCHANGED <<cleanup_task, result_dir, output_dir, authorization, semaphore, now, file, endpoint, resp, acquired, released,
                   parser_calls>>

\* `async with _semaphore`: the job gets a permit at once or becomes a waiter.
JobAcquire(a) ==
    /\ pc[a] = "acquire"
    /\ semaphore' = acquire(semaphore, a)
    /\ IF acquire_fast(semaphore)
       THEN /\ acquired' = [acquired EXCEPT ![a] = @ + 1]
            /\ pc' = [pc EXCEPT ![a] = "admitted"]
       ELSE /\ pc' = [pc EXCEPT ![a] = "waiting"]
            /\ UNCHANGED acquired
    /\ UNCHANGED <<cleanup_task, result_dir, output_dir, authorization, tasks, now, file, endpoint, resp, released, parser_calls>>

\* A woken waiter runs again: acquire() returns, the `async with` body starts.
Resume(p) ==
    /\ pc[p] = "waiting"
    /\ p \in semaphore.woken
    /\ semaphore' = acquire_resume(semaphore, p)
    /\ acquired' = [acquired EXCEPT ![p] = @ + 1]
    /\ pc' = [pc EXCEPT ![p] = IF p \in SyncReqs THEN "reading" ELSE "admitted"]
    /\ UNCHANGED <<cleanup_task, result_dir, output_dir, authorization, tasks, now, file, endpoint, resp, released, parser_calls>>

\* A job that goes to the parser without reporting that it was admitted.
JobAdmitted_silent(a) ==
    /\ pc[a] = "admitted"
    /\ pc' = [pc EXCEPT ![a] = "process"]
    /\ UNCHANGED <<cleanup_task, result_dir, output_dir, authorization, semaphore, tasks, now, file, endpoint, resp, acquired,
                   released, parser_calls>>

\* First statement inside `async with`.
JobAdmitted(a) ==
    /\ pc[a] = "admitted"
    /\ tasks' = update(tasks, a, [progress |-> 30], now)
    /\ pc' = [pc EXCEPT ![a] = "process"]
    /\ UNCHANGED <<cleanup_task, result_dir, output_dir, authorization, semaphore, now, file, endpoint, resp, acquired, released,
                   parser_calls>>

\* A job that handles the exception of an unsupported type inside
\* `async with`: it goes on to the failure write with its permit.
JobProcess_keeping(a) ==
    /\ pc[a] = "process"
    /\ IF early_error("parse_async", file[a], TRUE) # 0
       THEN /\ pc' = [pc EXCEPT ![a] = "failing"]
            /\ UNCHANGED <<semaphore, released, parser_calls, output_dir>>
       ELSE /\ output_dir' = output_dir \cup {a}
            /\ parser_calls' = [parser_calls EXCEPT ![a] = @ + 1]
            /\ pc' = [pc EXCEPT ![a] = "parsing"]
            /\ UNCHANGED <<semaphore, released>>
    /\ UNCHANGED <<cleanup_task, result_dir, authorization, tasks, now, file, endpoint, resp, acquired>>

\* process_file_bytes up to `await aio_do_parse(...)`.  An unsupported type
\* raises: `async with` is left (release) on the way to the except block.
JobProcess(a) ==
    /\ pc[a] = "process"
    /\ IF early_error("parse_async", file[a], TRUE) # 0
       THEN /\ semaphore' = release(semaphore)
            /\ released' = [released EXCEPT ![a] = @ + 1]
            /\ pc' = [pc EXCEPT ![a] = "failing"]
            /\ UNCHANGED <<parser_calls, output_dir>>
       ELSE /\ output_dir' = output_dir \cup {a}         \* os.makedirs
            /\ parser_calls' = [parser_calls EXCEPT ![a] = @ + 1]
            /\ pc' = [pc EXCEPT ![a] = "parsing"]
            /\ UNCHANGED <<semaphore, released>>
    /\ UNCHANGED <<cleanup_task, result_dir, authorization, tasks, now, file, endpoint, resp, acquired>>

\* A process_file_bytes that removes the output directory at the end of its
\* try body instead of in a `finally`.
JobParserReturn_leaking(a, ok) ==
    /\ pc[a] = "parsing"
    /\ a \in AsyncReqs
    /\ IF ok
       THEN /\ output_dir' = rmtree(output_dir, a)
            /\ pc' = [pc EXCEPT ![a] = "completing"]
            /\ UNCHANGED <<semaphore, released>>
       ELSE /\ semaphore' = release(semaphore)
            /\ released' = [released EXCEPT ![a] = @ + 1]
            /\ pc' = [pc EXCEPT ![a] = "failing"]
            /\ UNCHANGED output_dir
    /\ UNCHANGED <<cleanup_task, result_dir, authorization, tasks, now, file, endpoint, resp, acquired, parser_calls>>

\* aio_do_parse returns and process_file_bytes returns the result, or it
\* raises: HTTPException(500) leaves `async with` (release).  The `finally`
\* of process_file_bytes removes the output directory on both ways.
JobParserReturn(a, ok) ==
    /\ pc[a] = "parsing"
    /\ a \in AsyncReqs
    /\ output_dir' = rmtree(output_dir, a)
    /\ IF ok
       THEN /\ pc' = [pc EXCEPT ![a] = "completing"]
            /\ UNCHANGED <<semaphore, released>>
       ELSE /\ semaphore' = release(semaphore)
            /\ released' = [released EXCEPT ![a] = @ + 1]
            /\ pc' = [pc EXCEPT ![a] = "failing"]
    /\ UNCHANGED <<cleanup_task, result_dir, authorization, tasks, now, file, endpoint, resp, acquired, parser_calls>>

\* A job whose success write puts the record back when the store no longer
\* holds it.
JobComplete_upserting(a) ==
    /\ pc[a] = "completing"
    /\ tasks' = IF a \in DOMAIN tasks
                THEN update(tasks, a, completed_fields, now)
                ELSE update(create(tasks, a, now), a, completed_fields, now)
    /\ pc' = [pc EXCEPT ![a] = "exiting"]
    /\ UNCHANGED <<cleanup_task, result_dir, output_dir, authorization, semaphore, now, file, endpoint, resp, acquired, released,
                   parser_calls>>

\* Last statement inside `async with`: COMPLETED is written.
JobComplete(a) ==
    /\ pc[a] = "completing"
    /\ tasks' = update(tasks, a, completed_fields, now)
    /\ pc' = [pc EXCEPT ![a] = "exiting"]
    /\ UNCHANGED <<cleanup_task, result_dir, output_dir, authorization, semaphore, now, file, endpoint, resp, acquired, released,
                   parser_calls>>

\* The end of `async with` on the success path.
JobExit(a) ==
    /\ pc[a] = "exiting"
    /\ semaphore' = release(semaphore)
    /\ released' = [released EXCEPT ![a] = @ + 1]
    /\ pc' = [pc EXCEPT ![a] = "done"]
    /\ file' = [file EXCEPT ![a] = NoFile]
    /\ UNCHANGED <<cleanup_task, result_dir, output_dir, authorization, tasks, now, endpoint, resp, acquired, parser_calls>>

\* A job without the except block: the exception leaves background_parse.
JobFail_reraising(a) ==
    /\ pc[a] = "failing"
    /\ pc' = [pc EXCEPT ![a] = "done"]
    /\ file' = [file EXCEPT ![a] = NoFile]
    /\ UNCHANGED <<cleanup_task, result_dir, output_dir, authorization, semaphore, tasks, now, endpoint, resp, acquired, released,
                   parser_calls>>

\* The except block: FAILED is written with str(e).
JobFail(a) ==
    /\ pc[a] = "failing"
    /\ tasks' = update(tasks, a,
                       failed_fields(IF early_error("parse_async", file[a], TRUE) # 0
                                     THEN 400 ELSE 500), now)
    /\ pc' = [pc EXCEPT ![a] = "done"]
    /\ file' = [file EXCEPT ![a] = NoFile]
    /\ UNCHANGED <<cleanup_task, result_dir, output_dir, authorization, semaphore, now, endpoint, resp, acquired, released,
                   parser_calls>>

----------------------------------------------------------------------------
(* GET /tasks/{task_id}, the periodic sweep, the clock.                    *)

\* The answer of GET /tasks/{task_id}.  The handler reads the store in one
\* atomic get and changes nothing, so the answers a client can receive, under
\* any interleaving of its polls with the jobs, are the values of this
\* operator in the reachable states.

get_task_status(ts, task_id) ==
    LET task == get(ts, task_id)
    IN  IF task_id \notin DOMAIN ts   \* `if not task`
        THEN [code |-> 404]
        ELSE [code |-> 200, task_id |-> task["task_id"],
              status |-> task["status"], progress |-> task["progress"],
              result |-> task["result"], error |-> task["error"],
              created_at |-> task["created_at"],
              updated_at |-> task["updated_at"]]

\* A sweep that also drops the records of finished jobs, whatever their age.
Sweep_finished ==
    /\ tasks' = [x \in {y \in DOMAIN tasks \ expired(tasks, now) :
                            tasks[y].status \notin {COMPLETED, FAILED}} |-> tasks[x]]
    /\ UNCHANGED <<cleanup_task, result_dir, output_dir, authorization, semaphore, now, pc, file, endpoint, resp, acquired,
                   released, parser_calls>>

\* One wake of periodic_cleanup.
Sweep ==
    /\ tasks' = cleanup_expired(tasks, now)
    /\ UNCHANGED <<cleanup_task, result_dir, output_dir, authorization, semaphore, now, pc, file, endpoint, resp, acquired,
                   released, parser_calls>>

Tick ==
    /\ now < MaxTicks * HoursPerTick
    /\ now' = now + HoursPerTick
    /\ UNCHANGED <<cleanup_task, result_dir, output_dir, authorization, semaphore, tasks, pc, file, endpoint, resp, acquired,
                   released, parser_calls>>

----------------------------------------------------------------------------
Next ==
    \/ \E r \in SyncReqs, e \in SyncEndpoints : SyncArrive(r, e)
    \/ \E r \in SyncReqs, f \in Files, status200 \in BOOLEAN :
            SyncRead(r, f, status200)
    \/ \E r \in SyncReqs, ok \in BOOLEAN : SyncParserReturn(r, ok)
    \/ \E a \in AsyncReqs, f \in Files : parse_async(a, f)
    \/ \E a \in AsyncReqs : JobStart(a)
    \/ \E a \in AsyncReqs : JobAcquire(a)
    \/ \E p \in Procs : Resume(p)
    \/ \E a \in AsyncReqs : JobAdmitted(a)
    \/ \E a \in AsyncReqs : JobProcess(a)
    \/ \E a \in AsyncReqs, ok \in BOOLEAN : JobParserReturn(a, ok)
    \/ \E a \in AsyncReqs : JobComplete(a)
    \/ \E a \in AsyncReqs : JobExit(a)
    \/ \E a \in AsyncReqs : JobFail(a)
    \/ Sweep
    \/ Tick

Spec == Init /\ [][Next]_vars

\* What the event loop and the external parser are assumed to do: a handler
\* or job that can run on does so, an upload or download ends, a parser call
\* returns or raises.
Step(p) ==
    \/ \E f \in Files, status200 \in BOOLEAN : SyncRead(p, f, status200)
    \/ \E ok \in BOOLEAN : SyncParserReturn(p, ok)
    \/ JobStart(p) \/ JobAcquire(p) \/ Resume(p) \/ JobAdmitted(p)
    \/ JobProcess(p)
    \/ \E ok \in BOOLEAN : JobParserReturn(p, ok)
    \/ JobComplete(p) \/ JobExit(p) \/ JobFail(p)

\* Weak fairness of the steps taken together: it follows from the fairness
\* of each request's steps, which the event loop gives.
LiveSpec == Spec /\ WF_vars(\E p \in Procs : Step(p))

----------------------------------------------------------------------------
(* TaskStore on its own: any caller, any order of calls.                   *)

\* The clock readings of StoreSpec: up to StoreSlack hours after the start
\* and after the TTL.
StoreSlack == 1

StoreTimes ==
    (0..StoreSlack) \cup (TASK_EXPIRE_HOURS..(TASK_EXPIRE_HOURS + StoreSlack))

\* Task ids are those of the /parse_async requests.
TaskIds == AsyncReqs

\* The keyword arguments background_parse passes to update().
Kwargs ==
    { [status |-> PROCESSING, progress |-> 10], [progress |-> 30],
      completed_fields, failed_fields(500) }

\* uuid4 ids are fresh: create() is called for an id the store does not hold.
StoreCreate(id) ==
    /\ id \notin DOMAIN tasks
    /\ tasks' = create(tasks, id, now)
    /\ UNCHANGED <<cleanup_task, result_dir, output_dir, authorization, semaphore, now, pc, file, endpoint, resp, acquired,
                   released, parser_calls>>

StoreUpdate(id, kwargs) ==
    /\ tasks' = update(tasks, id, kwargs, now)
    /\ UNCHANGED <<cleanup_task, result_dir, output_dir, authorization, semaphore, now, pc, file, endpoint, resp, acquired,
                   released, parser_calls>>

StoreCleanup ==
    /\ tasks' = cleanup_expired(tasks, now)
    /\ UNCHANGED <<cleanup_task, result_dir, output_dir, authorization, semaphore, now, pc, file, endpoint, resp, acquired,
                   released, parser_calls>>

\* Time passes.
StoreTick(t) ==
    /\ t > now
    /\ now' = t
    /\ UNCHANGED <<cleanup_task, result_dir, output_dir, authorization, semaphore, tasks, pc, file, endpoint, resp, acquired,
                   released, parser_calls>>

StoreNext ==
    \/ \E id \in TaskIds : StoreCreate(id)
    \/ \E id \in TaskIds, kwargs \in Kwargs : StoreUpdate(id, kwargs)
    \/ StoreCleanup
    \/ \E t \in StoreTimes : StoreTick(t)

StoreSpec == Init /\ [][StoreNext]_vars

----------------------------------------------------------------------------
(* periodic_cleanup, the task lifespan starts and cancels.  cleanup_task   *)
(* holds where the loop stands (pc), how often it called cleanup_expired    *)
(* (calls), how many errors its `except Exception` caught (caught) and      *)
(* where a CancelledError reached it (cancelled).  The loop can be          *)
(* suspended in `asyncio.sleep` and in `async with self._lock`.             *)

\* The loop wakes MaxSweeps times at most.
MaxSweeps == 3

\* `await asyncio.sleep(3600)` returns; cleanup_expired is called and asks for
\* the store's lock.
SweepWake ==
    /\ cleanup_task.pc = "sleeping"
    /\ cleanup_task.calls < MaxSweeps
    /\ cleanup_task' = [cleanup_task EXCEPT !.pc = "locking", !.calls = @ + 1]
    /\ UNCHANGED <<semaphore, tasks, now, pc, file, endpoint, resp, acquired,
                   released, parser_calls, authorization, output_dir,
                   result_dir>>

\* An iteration whose error leaves periodic_cleanup.
SweepRun_propagating(raises) ==
    /\ cleanup_task.pc = "locking"
    /\ IF raises
       THEN /\ cleanup_task' = [cleanup_task EXCEPT !.pc = "done"]
            /\ tasks' = tasks
       ELSE /\ cleanup_task' = [cleanup_task EXCEPT !.pc = "sleeping"]
            /\ tasks' = cleanup_expired(tasks, now)
    /\ UNCHANGED <<semaphore, now, pc, file, endpoint, resp, acquired,
                   released, parser_calls, authorization, output_dir,
                   result_dir>>

\* cleanup_expired runs under the lock, without an `await`: it returns, or it
\* raises while it scans (before it deletes) and `except Exception` logs the
\* error.  Either way the loop goes back to sleep.
SweepRun(raises) ==
    /\ cleanup_task.pc = "locking"
    /\ IF raises
       THEN /\ cleanup_task' = [cleanup_task EXCEPT !.pc = "sleeping",
                                                    !.caught = @ + 1]
            /\ tasks' = tasks
       ELSE /\ cleanup_task' = [cleanup_task EXCEPT !.pc = "sleeping"]
            /\ tasks' = cleanup_expired(tasks, now)
    /\ UNCHANGED <<semaphore, now, pc, file, endpoint, resp, acquired,
                   released, parser_calls, authorization, output_dir,
                   result_dir>>

\* A cancellation that reaches cleanup_expired between two deletions.
SweepCancel_midway ==
    /\ cleanup_task.pc \in {"sleeping", "locking"}
    /\ cleanup_task' = [cleanup_task EXCEPT !.pc = "done",
                                            !.cancelled = cleanup_task.pc]
    /\ tasks' = IF cleanup_task.pc = "locking"
                THEN cleanup_expired_one_per_run(tasks, now) ELSE tasks
    /\ UNCHANGED <<semaphore, now, pc, file, endpoint, resp, acquired,
                   released, parser_calls, authorization, output_dir,
                   result_dir>>

\* Shutdown: lifespan calls cleanup_task.cancel(); the CancelledError is
\* raised at the `await` the loop is suspended in, `except CancelledError:
\* break` ends the loop.
SweepCancel ==
    /\ cleanup_task.pc \in {"sleeping", "locking"}
    /\ cleanup_task' = [cleanup_task EXCEPT !.pc = "done",
                                            !.cancelled = cleanup_task.pc]
    /\ UNCHANGED <<semaphore, tasks, now, pc, file, endpoint, resp, acquired,
                   released, parser_calls, authorization, output_dir,
                   result_dir>>

SweepNext ==
    \/ \E id \in TaskIds : StoreCreate(id)
    \/ \E t \in StoreTimes : StoreTick(t)
    \/ SweepWake
    \/ \E raises \in BOOLEAN : SweepRun(raises)
    \/ SweepCancel

\* The timer fires and the event loop runs the task.
SweepSpec ==
    /\ Init /\ [][SweepNext]_vars
    /\ WF_vars(SweepWake) /\ WF_vars(\E raises \in BOOLEAN : SweepRun(raises))

----------------------------------------------------------------------------
(* Authentication: `dependencies=[Depends(verify_token)]` of the parse and *)
(* poll routes.  Spec above is the server as seen by the requests that     *)
(* passed it; here every request comes with its Authorization header.      *)
(* Strings are sequences of characters; the absent header (None) and the   *)
(* empty one are both <<>>, which is what `not authorization` tests.       *)

Bearer == <<"B", "e", "a", "r", "e", "r", " ">>

\* The token an operator configured, and the empty one of open mode.
Secret == <<"s", "3">>

NoToken == <<>>

\* What clients send: nothing, the token under Bearer, another token, the
\* token under another scheme, the token alone, the scheme in lower case,
\* the scheme alone.
Headers ==
    { <<>>,
      Bearer \o Secret,
      Bearer \o <<"s", "4">>,
      <<"B", "a", "s", "i", "c", " ">> \o Secret,
      Secret,
      <<"b", "e", "a", "r", "e", "r", " ">> \o Secret,
      Bearer }

\* str.startswith
startswith(s, prefix) ==
    /\ Len(s) >= Len(prefix)
    /\ SubSeq(s, 1, Len(prefix)) = prefix

\* A dependency that looks for the token anywhere at the end of the header.
verify_token_any_scheme(API_TOKEN, header) ==
    IF API_TOKEN = <<>> THEN 0
    ELSE IF header = <<>> THEN 401
    ELSE IF Len(header) < Len(API_TOKEN) THEN 401
    ELSE IF SubSeq(header, Len(header) - Len(API_TOKEN) + 1, Len(header))
              # API_TOKEN THEN 401
    ELSE 0

\* A dependency that demands a Bearer header also when no token is configured.
verify_token_always(API_TOKEN, header) ==
    IF header = <<>> THEN 401
    ELSE IF ~startswith(header, Bearer) THEN 401
    ELSE IF SubSeq(header, Len(Bearer) + 1, Len(header)) # API_TOKEN THEN 401
    ELSE 0

\* verify_token: the status of the HTTPException it raises, 0 when it
\* returns True.  API_TOKEN is the module's global, read from the environment.
verify_token(API_TOKEN, header) ==
    IF API_TOKEN = <<>> THEN 0                              \* `if not API_TOKEN`
    ELSE IF header = <<>> THEN 401                          \* `if not authorization`
    ELSE IF ~startswith(header, Bearer) THEN 401
    ELSE IF SubSeq(header, Len(Bearer) + 1, Len(header)) # API_TOKEN THEN 401
    ELSE 0

\* A request reaches the server with its header; the one received before has
\* been routed.  (Its body is read before the route's dependencies run.)
Receive(p, header) ==
    /\ pc[p] = "idle"
    /\ IF authorization.of = 0 THEN TRUE ELSE pc[authorization.of] # "idle"
    /\ \A q \in Procs : (q < p /\ (q \in SyncReqs <=> p \in SyncReqs)) =>
                            pc[q] # "idle"
    /\ authorization' = [of |-> p, header |-> header]
    /\ UNCHANGED <<cleanup_task, result_dir, output_dir, semaphore, tasks, now, pc, file, endpoint, resp, acquired,
                   released, parser_calls>>

\* The dependency raised: the HTTPException is the response.
Reject(p, code) ==
    /\ resp' = [resp EXCEPT ![p] = code]
    /\ pc' = [pc EXCEPT ![p] = "done"]
    /\ UNCHANGED <<cleanup_task, result_dir, output_dir, authorization, semaphore, tasks, now, file, endpoint,
                   acquired, released, parser_calls>>

\* The route of the request received last: verify_token, then the handler.
Route(API_TOKEN, p, Handler) ==
    /\ authorization.of = p
    /\ pc[p] = "idle"
    /\ IF verify_token(API_TOKEN, authorization.header) # 0
       THEN Reject(p, verify_token(API_TOKEN, authorization.header))
       ELSE Handler

\* GET /tasks/{task_id} with its dependency.
get_task_status_route(API_TOKEN, header, ts, task_id) ==
    IF verify_token(API_TOKEN, header) # 0
    THEN [code |-> verify_token(API_TOKEN, header)]
    ELSE get_task_status(ts, task_id)

\* The steps of the handlers and jobs after the route was entered.
Running ==
    \/ \E r \in SyncReqs, f \in Files, status200 \in BOOLEAN :
            SyncRead(r, f, status200)
    \/ \E r \in SyncReqs, ok \in BOOLEAN : SyncParserReturn(r, ok)
    \/ \E a \in AsyncReqs : JobStart(a)
    \/ \E a \in AsyncReqs : JobAcquire(a)
    \/ \E p \in Procs : Resume(p)
    \/ \E a \in AsyncReqs : JobAdmitted(a)
    \/ \E a \in AsyncReqs : JobProcess(a)
    \/ \E a \in AsyncReqs, ok \in BOOLEAN : JobParserReturn(a, ok)
    \/ \E a \in AsyncReqs : JobComplete(a)
    \/ \E a \in AsyncReqs : JobExit(a)
    \/ \E a \in AsyncReqs : JobFail(a)

\* The server started with API_TOKEN set.
SecuredNext ==
    \/ \E p \in Procs, header \in Headers : Receive(p, header)
    \/ \E r \in SyncReqs, e \in SyncEndpoints :
            Route(Secret, r, SyncArrive(r, e))
    \/ \E a \in AsyncReqs, f \in Files : Route(Secret, a, parse_async(a, f))
    \/ Running

SecuredSpec == Init /\ [][SecuredNext]_vars

\* The server started without API_TOKEN.
OpenNext ==
    \/ \E p \in Procs, header \in Headers : Receive(p, header)
    \/ \E r \in SyncReqs, e \in SyncEndpoints :
            Route(NoToken, r, SyncArrive(r, e))
    \/ \E a \in AsyncReqs, f \in Files : Route(NoToken, a, parse_async(a, f))
    \/ Running

OpenSpec == Init /\ [][OpenNext]_vars

----------------------------------------------------------------------------
(* Properties.                                                             *)

\* A request or job is inside `async with _semaphore`.
Holds(p) == acquired[p] > released[p]

Holders == {p \in Procs : Holds(p)}

\* Permits out of the counter: held by a holder or handed to a woken waiter.
Held == MAX_CONCURRENT - semaphore.value

Parsing == {p \in Procs : pc[p] = "parsing"}

InFlight == {p \in Procs : pc[p] \notin {"idle", "done"}}

Terminal == {COMPLETED, FAILED}

\* C1: with capacity N and more than N requests and jobs in flight, the held
\* permits stay within 0..N, every permit out of the counter belongs to a
\* holder (or to a woken waiter), and the external parser only runs for a
\* holder, so at most N parser invocations are in flight.
C1_GateBound ==
    /\ 0 <= Held /\ Held <= MAX_CONCURRENT
    /\ Held = Cardinality(Holders) + Cardinality(semaphore.woken)
    /\ \A p \in Parsing : Holds(p)
    /\ Cardinality(Parsing) <= MAX_CONCURRENT

C1_Witness ==
    /\ Cardinality(InFlight) > MAX_CONCURRENT
    /\ Cardinality(Parsing) = MAX_CONCURRENT
    /\ Parsing \cap SyncReqs # {}
    /\ Parsing \cap AsyncReqs # {}

StatusForward(a, b) ==
    \/ a = b
    \/ a = PENDING /\ b = PROCESSING
    \/ a = PROCESSING /\ b \in Terminal

\* C2: the stored status of a task only moves Pending -> Processing ->
\* {Completed, Failed}: no step changes a Completed or Failed record to
\* another status, and no step moves a record backward.
C2_StatusForwardOnly ==
    [][\A id \in DOMAIN tasks \cap DOMAIN tasks' :
          StatusForward(tasks[id].status, tasks'[id].status)]_vars

C2_Witness ==
    \E id1, id2 \in DOMAIN tasks :
        /\ tasks[id1].status = COMPLETED
        /\ tasks[id2].status = FAILED
        /\ pc[id1] = "done" /\ pc[id2] = "done"

\* What a poll of `id` shows: Completed with a result and no error, or Failed
\* with an error and no result.
Outcome(ans) ==
    IF ans.code = 404 THEN <<404>> ELSE <<200, ans.status, ans.result, ans.error>>

ShowsTerminal(ts, id) ==
    LET ans == get_task_status(ts, id)
    IN  /\ ans.code = 200
        /\ \/ ans.status = COMPLETED /\ ans.result # None /\ ans.error = None
           \/ ans.status = FAILED /\ ans.error # None /\ ans.result = None

\* C3 as stated: every task created by /parse_async eventually polls
\* as exactly one of Completed-with-result or Failed-with-error, and a poll
\* that showed a terminal outcome shows the same outcome ever after.
C3_TerminalForever ==
    /\ \A id \in AsyncReqs : (id \in DOMAIN tasks) ~> ShowsTerminal(tasks, id)
    /\ [][\A id \in AsyncReqs :
            ShowsTerminal(tasks, id) =>
                Outcome(get_task_status(tasks', id)) =
                Outcome(get_task_status(tasks, id))]_vars

\* C3 (amended): under fair scheduling every created task eventually polls
\* as exactly one of Completed-with-result or Failed-with-error, never both,
\* unless the sweep has removed its record; after a poll showed a terminal
\* outcome every later poll shows the same outcome until the sweep removes
\* the record, and Not-Found from then on.
C3_TerminalUntilSwept ==
    /\ \A id \in AsyncReqs :
          (id \in DOMAIN tasks) ~>
              (ShowsTerminal(tasks, id) \/ get_task_status(tasks, id).code = 404)
    /\ [][\A id \in AsyncReqs :
            ShowsTerminal(tasks, id) =>
                \/ Outcome(get_task_status(tasks', id)) =
                   Outcome(get_task_status(tasks, id))
                \/ /\ get_task_status(tasks', id).code = 404
                   /\ id \in expired(tasks, now)]_vars
    /\ [][\A id \in AsyncReqs :
            get_task_status(tasks, id).code = 404 /\ resp[id] = 200 =>
                get_task_status(tasks', id).code = 404]_vars
    /\ [](\A id \in DOMAIN tasks :
            ~(tasks[id].result # None /\ tasks[id].error # None))

C3_Witness ==
    \E id1, id2 \in AsyncReqs :
        /\ ShowsTerminal(tasks, id1) /\ tasks[id1].status = COMPLETED
        /\ get_task_status(tasks, id2).code = 404 /\ resp[id2] = 200
        /\ pc[id2] = "done"

\* C4: in every state of the store a poll can observe, result is present iff
\* the status is Completed, error is present iff the status is Failed, the
\* two are never both present, and both are absent while Pending or
\* Processing.
C4_ResultErrorMatchStatus ==
    \A id \in DOMAIN tasks :
        LET ans == get_task_status(tasks, id)
        IN  /\ (ans.result # None) <=> (ans.status = COMPLETED)
            /\ (ans.error # None) <=> (ans.status = FAILED)
            /\ ~(ans.result # None /\ ans.error # None)
            /\ ans.status \in {PENDING, PROCESSING} =>
                   ans.result = None /\ ans.error = None

C4_Witness ==
    \E id1, id2 \in DOMAIN tasks :
        /\ tasks[id1].status = FAILED /\ tasks[id1].error # None
        /\ tasks[id2].status = PROCESSING /\ pc[id2] = "parsing"

\* C5: a synchronous request that arrives while all N permits are held is
\* answered 503 in the same step, without invoking the parser and without
\* changing the gate; it is not queued, and it never obtains a permit later.
C5_RejectedAtCapacity ==
    [][\A r \in SyncReqs :
          /\ (pc[r] = "idle" /\ pc'[r] # "idle" /\ Held = MAX_CONCURRENT) =>
                /\ resp'[r] = 503 /\ pc'[r] = "done"
                /\ semaphore' = semaphore
          /\ resp[r] = 503 =>
                /\ resp'[r] = 503 /\ pc'[r] = "done"
                /\ acquired'[r] = 0 /\ parser_calls'[r] = 0
                /\ \A i \in 1..Len(semaphore'.waiters) : semaphore'.waiters[i] # r
       ]_vars

C5_Witness ==
    \E r \in SyncReqs :
        /\ resp[r] = 503 /\ pc[r] = "done"
        /\ Cardinality(Parsing) = MAX_CONCURRENT
        /\ acquired[r] = 0 /\ parser_calls[r] = 0

Waiters == {semaphore.waiters[i] : i \in 1..Len(semaphore.waiters)}

\* C6: a synchronous request never waits at the gate: one that passes the
\* capacity probe has its permit when the step ends, one that does not is
\* answered 503, and none is ever in the semaphore's wait queue; the gate is
\* never over-admitted.
C6_SyncNeverWaits ==
    /\ \A r \in SyncReqs :
          /\ pc[r] # "waiting" /\ r \notin Waiters
          /\ pc[r] # "idle" =>
                \/ resp[r] = 503 /\ acquired[r] = 0
                \/ resp[r] # 503 /\ acquired[r] = 1
    /\ Cardinality(Holders) <= MAX_CONCURRENT

\* Two synchronous requests hold both permits while a job waits.
C6_Witness ==
    /\ Cardinality(Holders \cap SyncReqs) = MAX_CONCURRENT
    /\ Waiters \cap AsyncReqs # {}

\* C7: every acquired permit is released exactly once on every exit path, for
\* synchronous handlers and background jobs: nobody releases more than it
\* acquired, a finished request or job has released what it acquired, the
\* counter never exceeds N (held never below 0), and once all have finished
\* the held-permit count is 0.
C7_ReleasedExactlyOnce ==
    /\ \A p \in Procs :
          /\ released[p] <= acquired[p] /\ acquired[p] <= 1
          /\ pc[p] = "done" => released[p] = acquired[p]
    /\ Held >= 0
    /\ (\A p \in Procs : pc[p] = "done") => Held = 0 /\ Waiters = {}

\* All have finished, over the exit paths 413, 400, 500 and a failed job.
C7_Witness ==
    /\ \A p \in Procs : pc[p] = "done"
    /\ \E r1, r2 \in SyncReqs :
          /\ resp[r1] = 413 /\ released[r1] = 1
          /\ resp[r2] \in {400, 500} /\ released[r2] = 1
    /\ \E a1, a2 \in DOMAIN tasks :
          /\ tasks[a1].status = FAILED /\ released[a1] = 1
          /\ tasks[a2].status = COMPLETED /\ released[a2] = 1

\* C8: a synchronous request that ends with PayloadTooLarge (413) was
\* rejected before any admission attempt: it never acquired a permit.
C8_ValidationBeforeAdmission ==
    \A r \in SyncReqs : resp[r] = 413 => acquired[r] = 0

\* C9: a /parse_async request whose content is oversized or of an unsupported
\* type is rejected in the HTTP response and no task record is created.
C9_AsyncValidatesFirst ==
    \A a \in AsyncReqs :
        /\ resp[a] = 413 => a \notin DOMAIN tasks
        /\ (file[a] \in Files /\ early_error("parse_async", file[a], TRUE) # 0) =>
              resp[a] # 200 /\ a \notin DOMAIN tasks

\* C10: the response of an accepted /parse_async precedes every step of the
\* task's job: in the step that answers, the store holds the record with
\* status Pending and progress 0 and the job has neither marked it
\* Processing, nor acquired a permit, nor invoked the parser; and no job has
\* done any of these before its request was answered.
C10_ResponseBeforeJob ==
    /\ [][\A a \in AsyncReqs :
            resp[a] = 0 /\ resp'[a] = 200 =>
                /\ a \in DOMAIN tasks'
                /\ tasks'[a].status = PENDING /\ tasks'[a].progress = 0
                /\ pc'[a] = "scheduled"
                /\ acquired'[a] = 0 /\ parser_calls'[a] = 0]_vars
    /\ [](\A a \in AsyncReqs :
            resp[a] = 0 =>
                /\ pc[a] = "idle" /\ a \notin DOMAIN tasks
                /\ acquired[a] = 0 /\ parser_calls[a] = 0)

C10_Witness ==
    \E a \in AsyncReqs :
        /\ pc[a] = "scheduled" /\ resp[a] = 200
        /\ a \in DOMAIN tasks /\ tasks[a].status = PENDING
        /\ Held = MAX_CONCURRENT

\* C11: a /parse_async request is never answered 503: one submitted while all
\* N permits are held is accepted (its record is created) unless it is
\* oversized, its job then waits in the semaphore's queue without a permit,
\* no synchronous request takes a permit while a job waits, and under fair
\* scheduling, with every parser call returning, a waiting job eventually
\* holds a permit.
C11_AsyncQueuesAndIsServed ==
    /\ [](\A a \in AsyncReqs : resp[a] \in {0, 200, 413})
    /\ [][\A a \in AsyncReqs :
            /\ (pc[a] = "idle" /\ pc'[a] # "idle" /\ Held = MAX_CONCURRENT) =>
                  \/ resp'[a] = 413
                  \/ /\ resp'[a] = 200 /\ a \in DOMAIN tasks'
                     /\ semaphore' = semaphore
            /\ (pc[a] = "acquire" /\ pc'[a] # "acquire" /\ Held = MAX_CONCURRENT) =>
                  /\ pc'[a] = "waiting" /\ acquired'[a] = 0
                  /\ \E i \in 1..Len(semaphore'.waiters) : semaphore'.waiters[i] = a
                  /\ semaphore'.value = semaphore.value]_vars
    /\ [][Waiters # {} => \A r \in SyncReqs : acquired'[r] = acquired[r]]_vars
    /\ \A a \in AsyncReqs : (pc[a] = "waiting") ~> Holds(a)

\* A job that waited has been handed a permit while a synchronous request that
\* came at capacity was turned away.
C11_Witness ==
    \E a \in AsyncReqs, r \in SyncReqs :
        /\ pc[a] = "waiting" /\ a \in semaphore.woken /\ resp[a] = 200
        /\ resp[r] = 503

\* C12: the background job is started once per created task, with the
\* creation of its record and never again; whenever validation inside
\* process_file_bytes or the external parser fails, the job goes to its
\* except block and from there ends with the record, if still present,
\* Failed with an error message (an absent record is not re-created); a
\* Failed record stays Failed with the same message, and the 200 answer the
\* client got is not turned into an error.
C12_JobCapturesFailure ==
    [][\A a \in AsyncReqs :
          /\ (a \in DOMAIN tasks' /\ a \notin DOMAIN tasks) <=>
                (pc'[a] = "scheduled" /\ pc[a] # "scheduled")
          /\ pc'[a] = "scheduled" => pc[a] \in {"idle", "scheduled"}
          /\ (pc[a] = "process" /\ pc'[a] \notin {"process", "parsing"}) =>
                pc'[a] = "failing"
          /\ (pc[a] = "parsing" /\ pc'[a] \notin {"parsing", "completing"}) =>
                pc'[a] = "failing"
          /\ (pc[a] = "failing" /\ pc'[a] # "failing") =>
                /\ pc'[a] = "done"
                /\ a \in DOMAIN tasks =>
                      /\ a \in DOMAIN tasks'
                      /\ tasks'[a].status = FAILED /\ tasks'[a].error # None
                /\ a \notin DOMAIN tasks => a \notin DOMAIN tasks'
          /\ (a \in DOMAIN tasks /\ a \in DOMAIN tasks'
                 /\ tasks[a].status = FAILED) =>
                tasks'[a].status = FAILED /\ tasks'[a].error = tasks[a].error
          /\ resp[a] = 200 => resp'[a] = 200
       ]_vars

\* One job failed in validation, one in the parser; both have ended.
C12_Witness ==
    \E a1, a2 \in DOMAIN tasks :
        /\ pc[a1] = "done" /\ tasks[a1].error = failed_fields(400).error
        /\ pc[a2] = "done" /\ tasks[a2].error = failed_fields(500).error
        /\ parser_calls[a1] = 0 /\ parser_calls[a2] = 1

\* The age of a record at the current clock reading.
Age(rec) == now - fromisoformat(rec.created_at)

\* C13: for every store content and clock reading, cleanup_expired removes
\* exactly the records whose age is strictly greater than the TTL, whatever
\* their status and updated_at, leaves every other record in place and
\* unmodified (also a terminal record whose age is exactly the TTL), and
\* returns the number of records it removed.
C13_CleanupRemovesExactlyExpired ==
    LET old   == {x \in DOMAIN tasks : Age(tasks[x]) > TASK_EXPIRE_HOURS}
        after == cleanup_expired(tasks, now)
    IN  /\ DOMAIN after = DOMAIN tasks \ old
        /\ \A x \in DOMAIN after : after[x] = tasks[x]
        /\ cleanup_expired_returns(tasks, now) = Cardinality(old)
        /\ cleanup_expired_returns(tasks, now) =
              Cardinality(DOMAIN tasks) - Cardinality(DOMAIN after)

\* The sweep removes a record updated a moment ago and keeps a terminal one
\* whose age is exactly the TTL.
C13_Witness ==
    \E x, y \in DOMAIN tasks :
        /\ Age(tasks[x]) = TASK_EXPIRE_HOURS + 1
        /\ tasks[x].updated_at = isoformat(now)
        /\ tasks[x].status = PROCESSING
        /\ Age(tasks[y]) = TASK_EXPIRE_HOURS
        /\ tasks[y].status = COMPLETED
        /\ DOMAIN cleanup_expired(tasks, now) = {y}
        /\ cleanup_expired_returns(tasks, now) = 1

C15_NotFoundThenPending ==
    \A id \in TaskIds :
        id \notin DOMAIN tasks =>
            LET ts  == create(tasks, id, now)
                rec == create_returns(tasks, id, now)
                ans == get_task_status(ts, id)
            IN  /\ get(tasks, id) = None
                /\ get_task_status(tasks, id).code = 404
                /\ "status" \notin DOMAIN get_task_status(tasks, id)
                /\ get(ts, id) = rec
                /\ rec.task_id = id
                /\ rec.status = PENDING /\ rec.progress = 0
                /\ rec.result = None /\ rec.error = None
                /\ rec.created_at = rec.updated_at
                /\ fromisoformat(rec.created_at) = now
                /\ ans.code = 200 /\ ans.status = PENDING /\ ans.progress = 0
                /\ ans.result = None /\ ans.error = None
                /\ ans.created_at = ans.updated_at
                /\ DOMAIN ts = DOMAIN tasks \cup {id}
                /\ \A x \in DOMAIN tasks : ts[x] = tasks[x]

\* Late on the clock an id is not in the store, next to a record that is
\* as create left it.
C15_Witness ==
    \E id, x \in TaskIds :
        /\ id \notin DOMAIN tasks /\ x \in DOMAIN tasks
        /\ now = TASK_EXPIRE_HOURS + 1
        /\ tasks[x] = create_returns(tasks, x, now)
        /\ get_task_status(tasks, id).code = 404
        /\ get_task_status(create(tasks, id, now), id).status = PENDING

\* C16: update on an id the store does not hold returns None and leaves the
\* store unchanged (nothing is inserted); on an id it holds, update sets
\* exactly the given fields, sets updated_at to the current time, leaves every
\* other field and every other record unchanged, and returns the updated
\* record.
C16_UpdateMergesOrNotFound ==
    \A id \in TaskIds, kwargs \in Kwargs :
        LET ts == update(tasks, id, kwargs, now)
        IN  IF id \notin DOMAIN tasks
            THEN /\ ts = tasks
                 /\ update_returns(tasks, id, kwargs, now) = None
            ELSE /\ DOMAIN ts = DOMAIN tasks
                 /\ \A x \in DOMAIN tasks \ {id} : ts[x] = tasks[x]
                 /\ DOMAIN ts[id] = DOMAIN tasks[id]
                 /\ \A f \in DOMAIN kwargs : ts[id][f] = kwargs[f]
                 /\ \A f \in DOMAIN tasks[id] \ (DOMAIN kwargs \cup {"updated_at"}) :
                        ts[id][f] = tasks[id][f]
                 /\ fromisoformat(ts[id].updated_at) = now
                 /\ update_returns(tasks, id, kwargs, now) = ts[id]

\* One id is absent; the other holds a record written to before, created
\* earlier than now, on which a partial update keeps the earlier fields.
C16_Witness ==
    \E id, x \in TaskIds :
        /\ id \notin DOMAIN tasks /\ x \in DOMAIN tasks
        /\ tasks[x].status = COMPLETED /\ tasks[x].result # None
        /\ fromisoformat(tasks[x].updated_at) < now
        /\ update(tasks, id, completed_fields, now) = tasks
        /\ update_returns(tasks, x, [progress |-> 30], now).status = COMPLETED
        /\ update_returns(tasks, x, [progress |-> 30], now).progress = 30
        /\ update(tasks, x, [progress |-> 30], now) # tasks

\* C17: in every reachable state of the server every record has
\* updated_at >= created_at; every step that changes a record sets its
\* updated_at to the current time; and a record's id and created_at never
\* change while it is in the store (the clock never goes back).
C17_Timestamps ==
    /\ [](\A id \in DOMAIN tasks :
            /\ fromisoformat(tasks[id].updated_at) >=
                  fromisoformat(tasks[id].created_at)
            /\ fromisoformat(tasks[id].updated_at) <= now
            /\ tasks[id].task_id = id)
    /\ [][\A id \in DOMAIN tasks \cap DOMAIN tasks' :
            /\ tasks'[id].task_id = tasks[id].task_id
            /\ tasks'[id].created_at = tasks[id].created_at
            /\ tasks'[id] # tasks[id] =>
                  fromisoformat(tasks'[id].updated_at) = now]_vars
    /\ [][now' >= now]_vars

\* A record created before the clock advanced and written to after it.
C17_Witness ==
    \E id \in DOMAIN tasks :
        /\ fromisoformat(tasks[id].created_at) = 0
        /\ fromisoformat(tasks[id].updated_at) = HoursPerTick
        /\ tasks[id].status = COMPLETED

\* C18: the progress of every record stays within [0, 1] (0 to 100 percent)
\* and no step lowers it: 0 at creation, 0.1 on Processing, 0.3 after
\* admission, 1.0 on Completed, left as it is on Failed.
C18_ProgressMonotone ==
    /\ [](\A id \in DOMAIN tasks :
            0 <= tasks[id].progress /\ tasks[id].progress <= 100)
    /\ [][\A id \in DOMAIN tasks \cap DOMAIN tasks' :
            /\ tasks'[id].progress >= tasks[id].progress
            /\ tasks'[id].status = FAILED =>
                  tasks'[id].progress = tasks[id].progress]_vars
    /\ [](\A id \in DOMAIN tasks :
            tasks[id].progress =
                CASE tasks[id].status = PENDING -> 0
                  [] tasks[id].status = PROCESSING /\ acquired[id] = 0 -> 10
                  [] tasks[id].status = PROCESSING /\ pc[id] = "admitted" -> 10
                  [] tasks[id].status = COMPLETED -> 100
                  [] OTHER -> tasks[id].progress)

\* One job failed in validation and one in the parser, after admission.
C18_Witness ==
    \E id1, id2 \in DOMAIN tasks :
        /\ tasks[id1].status = FAILED /\ tasks[id1].progress = 30
        /\ parser_calls[id1] = 1
        /\ tasks[id2].status = FAILED /\ tasks[id2].progress = 30
        /\ parser_calls[id2] = 0

\* The one header that presents the configured token.
Matching == Bearer \o Secret

\* The step in which request p leaves the queue of received requests.
Routed(p) == pc[p] = "idle" /\ pc'[p] # "idle"

\* C19: with a token configured, a request to /parse, /parse_url or
\* /parse_async whose Authorization header is absent or does not present the
\* token is answered 401 in the step that routes it, and that step changes
\* nothing else: no task record, no probe or permit, no upload read, no parser
\* call; a rejected request never does any of these later; a poll of
\* /tasks/{id} with such a header is answered 401 whether or not the id
\* exists; and a request or poll presenting the token reaches its handler.
C19_RejectedBeforeAnyEffect ==
    /\ [][\A p \in Procs :
            Routed(p) =>
                /\ authorization.of = p
                /\ authorization.header # Matching =>
                      /\ resp'[p] = 401 /\ pc'[p] = "done"
                      /\ tasks' = tasks /\ semaphore' = semaphore
                      /\ file' = file /\ acquired' = acquired
                      /\ released' = released /\ parser_calls' = parser_calls
                /\ authorization.header = Matching =>
                      /\ resp'[p] # 401
                      /\ p \in SyncReqs =>
                            \/ resp'[p] = 503
                            \/ pc'[p] = "reading" /\ acquired'[p] = 1
                      /\ p \in AsyncReqs =>
                            \/ resp'[p] = 413
                            \/ resp'[p] = 200 /\ p \in DOMAIN tasks']_vars
    /\ [](\A p \in Procs :
            resp[p] = 401 =>
                /\ pc[p] = "done" /\ p \notin DOMAIN tasks
                /\ acquired[p] = 0 /\ parser_calls[p] = 0
                /\ p \notin Waiters /\ file[p] = NoFile)
    /\ [](\A header \in Headers, id \in TaskIds :
            get_task_status_route(Secret, header, tasks, id) =
                IF header = Matching THEN get_task_status(tasks, id)
                ELSE [code |-> 401])

\* A request with another token was turned away while the gate was free and
\* after a request with the token had got its task.
C19_Witness ==
    \E r \in SyncReqs, a \in AsyncReqs :
        /\ authorization = [of |-> r, header |-> Bearer \o <<"s", "4">>]
        /\ resp[r] = 401 /\ pc[r] = "done" /\ acquired[r] = 0
        /\ Held = 0
        /\ resp[a] = 200 /\ a \in DOMAIN tasks
        /\ get_task_status_route(Secret, <<>>, tasks, a).code = 401

\* C20: with no token configured every request passes the dependency whatever
\* its Authorization header is (absent, malformed, any token): none is
\* answered 401 or 403, each routed request enters its handler, and a poll
\* is answered exactly as the handler answers.
C20_OpenModeBypass ==
    /\ [][\A p \in Procs :
            Routed(p) =>
                /\ authorization.of = p
                /\ resp'[p] \notin {401, 403}
                /\ p \in SyncReqs =>
                      \/ resp'[p] = 503
                      \/ pc'[p] = "reading" /\ acquired'[p] = 1
                /\ p \in AsyncReqs =>
                      \/ resp'[p] = 413
                      \/ resp'[p] = 200 /\ p \in DOMAIN tasks']_vars
    /\ [](\A p \in Procs : resp[p] \notin {401, 403})
    /\ [](\A header \in Headers :
            /\ verify_token(NoToken, header) = 0
            /\ \A id \in TaskIds :
                  get_task_status_route(NoToken, header, tasks, id) =
                      get_task_status(tasks, id))

\* A request without a header is in the parser, after one with a malformed
\* header got its task.
C20_Witness ==
    \E r \in SyncReqs, a \in AsyncReqs :
        /\ authorization = [of |-> r, header |-> <<>>]
        /\ pc[r] = "parsing" /\ parser_calls[r] = 1
        /\ resp[a] = 200 /\ a \in DOMAIN tasks

\* C21: when a call of cleanup_expired raises, the error is caught inside
\* the loop: the loop is asleep again after that iteration (it has not ended),
\* the store is as it was, and, unless the service shuts down, a later wake
\* calls cleanup_expired again.
C21_SweepSurvivesErrors ==
    /\ [][cleanup_task'.caught # cleanup_task.caught =>
            /\ cleanup_task'.caught = cleanup_task.caught + 1
            /\ cleanup_task'.pc = "sleeping"
            /\ tasks' = tasks]_vars
    /\ [](cleanup_task.pc = "done" => cleanup_task.cancelled # None)
    /\ \A k \in 1..(MaxSweeps - 1) :
          (cleanup_task.caught > 0 /\ cleanup_task.calls = k) ~>
              (cleanup_task.calls > k \/ cleanup_task.pc = "done")

\* After a failed iteration a later one has run and swept the store.
C21_Witness ==
    /\ cleanup_task.caught = 1 /\ cleanup_task.calls = MaxSweeps
    /\ cleanup_task.pc = "sleeping"
    /\ now > TASK_EXPIRE_HOURS
    /\ \A x \in DOMAIN tasks : Age(tasks[x]) <= TASK_EXPIRE_HOURS
    /\ tasks # <<>>

\* C22: a cancellation ends the loop where it is suspended, in the sleep or
\* at the store's lock: the cancelling step changes no record, the ended
\* loop calls cleanup_expired no more and removes nothing, and every step
\* that removes records removes exactly all those expired at that moment and
\* leaves the others as they are (no partial cleanup).
C22_SweepCancellable ==
    /\ [][cleanup_task'.pc = "done" /\ cleanup_task.pc # "done" =>
            /\ tasks' = tasks
            /\ cleanup_task'.calls = cleanup_task.calls
            /\ cleanup_task'.cancelled = cleanup_task.pc]_vars
    /\ [][cleanup_task.pc = "done" =>
            /\ cleanup_task' = cleanup_task
            /\ DOMAIN tasks \subseteq DOMAIN tasks']_vars
    /\ [][LET old == {x \in DOMAIN tasks : Age(tasks[x]) > TASK_EXPIRE_HOURS}
          IN  /\ \/ DOMAIN tasks \subseteq DOMAIN tasks'
                 \/ DOMAIN tasks' = DOMAIN tasks \ old
              /\ \A x \in DOMAIN tasks \cap DOMAIN tasks' :
                    tasks'[x] = tasks[x]]_vars

\* The loop was cancelled at the lock while two records were expired: both
\* are still there.
C22_Witness ==
    /\ cleanup_task.pc = "done" /\ cleanup_task.cancelled = "locking"
    /\ Cardinality({x \in DOMAIN tasks : Age(tasks[x]) > TASK_EXPIRE_HOURS}) = 2

\* C23: content of MAX_FILE_SIZE + 1 bytes or more never reaches the external
\* parser: a synchronous request only goes on to the parser, and a
\* /parse_async request is only accepted, with content of at most
\* MAX_FILE_SIZE bytes; a request answered 413 has invoked no parser, and an
\* asynchronous one has no record and no job.
C23_OversizeNeverParsed ==
    /\ [][\A p \in Procs :
            /\ parser_calls'[p] # parser_calls[p] =>
                  file'[p].size <= MAX_FILE_SIZE
            /\ (resp[p] = 0 /\ resp'[p] = 200 /\ p \in AsyncReqs) =>
                  file'[p].size <= MAX_FILE_SIZE
            /\ resp[p] = 413 =>
                  /\ resp'[p] = 413 /\ pc'[p] = "done"
                  /\ parser_calls'[p] = 0]_vars
    /\ [](\A p \in Procs :
            /\ resp[p] = 413 =>
                  /\ parser_calls[p] = 0 /\ pc[p] = "done"
                  /\ p \notin DOMAIN tasks /\ p \notin output_dir
            /\ pc[p] = "parsing" => file[p].size <= MAX_FILE_SIZE)

\* Both kinds of request were answered 413 while content of exactly
\* MAX_FILE_SIZE bytes is in the parser.
C23_Witness ==
    \E r1, r2 \in SyncReqs, a1, a2 \in AsyncReqs :
        /\ resp[r1] = 413 /\ resp[a1] = 413
        /\ pc[r2] = "parsing" /\ pc[a2] = "parsing"
        /\ file[r2].size = MAX_FILE_SIZE /\ file[a2].size = MAX_FILE_SIZE

\* ---------------------------------------------------------------------
\* Result directories. Paths, backend names and parse methods are strings
\* the code compares, prefixes and joins, so they are character sequences.

pipeline == <<"p", "i", "p", "e", "l", "i", "n", "e">>
vlm == <<"v", "l", "m">>
hybrid == <<"h", "y", "b", "r", "i", "d">>
vlm_auto_engine == vlm \o <<"-", "a", "u", "t", "o", "-", "e", "n", "g", "i", "n", "e">>
hybrid_auto_engine == hybrid \o <<"-", "a", "u", "t", "o", "-", "e", "n", "g", "i", "n", "e">>
vlm_http_client == vlm \o <<"-", "h", "t", "t", "p", "-", "c", "l", "i", "e", "n", "t">>
hybrid_http_client == hybrid \o <<"-", "h", "t", "t", "p", "-", "c", "l", "i", "e", "n", "t">>
auto == <<"a", "u", "t", "o">>
txt == <<"t", "x", "t">>
ocr == <<"o", "c", "r">>

\* class BackendType(str, Enum): the values a request's backend can take.
BackendType ==
    {pipeline, vlm_auto_engine, hybrid_auto_engine, vlm_http_client, hybrid_http_client}

\* ParseRequest.parse_method: auto/txt/ocr.
parse_methods == {auto, txt, ocr}

\* The choices of the backend dropdown of the two Gradio apps.
choices == {vlm_auto_engine, hybrid_auto_engine, pipeline}

\* Path(filename).stem of the uploaded document.
Stems == {<<"d", "o", "c">>, <<"a", ".", "b">>}

\* The directory handed to the parser: OUTPUT_DIR/<task id> in the server, a
\* tempfile.TemporaryDirectory() in the apps.
Roots == {<<"/", "o", "u", "t">>, <<"/", "t", "m", "p", "/", "u", "1">>}

\* os.path.join(a, b) on posix: an absolute b discards a; one separator is
\* put between the two unless a is empty or already ends in one.
join(a, b) ==
    IF b # <<>> /\ b[1] = "/" THEN b
    ELSE IF a = <<>> \/ a[Len(a)] = "/" THEN a \o b
    ELSE a \o <<"/">> \o b

\* A server that reads the results of every parse from the "auto" directory.
process_file_bytes_result_dir_auto(backend, parse_method, pdf_name, output_path) ==
    IF backend = pipeline
    THEN join(join(output_path, pdf_name), auto)
    ELSE IF startswith(backend, vlm)
    THEN join(join(output_path, pdf_name), vlm)
    ELSE join(join(output_path, pdf_name), hybrid \o <<"_">> \o auto)

\* process_file_bytes: the directory the server reads the results from.
process_file_bytes_result_dir(backend, parse_method, pdf_name, output_path) ==
    IF backend = pipeline
    THEN join(join(output_path, pdf_name), parse_method)
    ELSE IF startswith(backend, vlm)
    THEN join(join(output_path, pdf_name), vlm)
    ELSE join(join(output_path, pdf_name), hybrid \o <<"_">> \o parse_method)

\* An app whose copy of the rule names the hybrid directory without the
\* parse method.
hf_space_result_dir_drifted(backend, file_stem, out_dir) ==
    IF backend = pipeline
    THEN join(join(out_dir, file_stem), auto)
    ELSE IF startswith(backend, vlm)
    THEN join(join(out_dir, file_stem), vlm)
    ELSE join(join(out_dir, file_stem), hybrid)

\* hf_space/app.py parse_document: the parser is run with parse_method="auto"
\* and the directory is spelled out for that method.
hf_space_result_dir(backend, file_stem, out_dir) ==
    IF backend = pipeline
    THEN join(join(out_dir, file_stem), auto)
    ELSE IF startswith(backend, vlm)
    THEN join(join(out_dir, file_stem), vlm)
    ELSE join(join(out_dir, file_stem), <<"h", "y", "b", "r", "i", "d", "_", "a", "u", "t", "o">>)

\* zerogpu_app.py parse_document: the same, in its own copy.
zerogpu_result_dir(backend, file_stem, out_dir) ==
    IF backend = pipeline
    THEN join(join(out_dir, file_stem), auto)
    ELSE IF startswith(backend, vlm)
    THEN join(join(out_dir, file_stem), vlm)
    ELSE join(join(out_dir, file_stem), <<"h", "y", "b", "r", "i", "d", "_", "a", "u", "t", "o">>)

\* A parse that has returned and whose result directory is about to be
\* resolved: which program, and with what the parser was run.
Calls ==
    [site : {"server"}, backend : BackendType, parse_method : parse_methods,
     stem : Stems, root : Roots, dir : {<<>>}]
    \cup
    [site : {"hf_space", "zerogpu"}, backend : choices, parse_method : {auto},
     stem : Stems, root : Roots, dir : {<<>>}]

ResolveInit ==
    /\ semaphore = [value |-> MAX_CONCURRENT, waiters |-> <<>>, woken |-> {}]
    /\ tasks = <<>>
    /\ now = 0
    /\ pc = [p \in Procs |-> "idle"]
    /\ file = [p \in Procs |-> NoFile]
    /\ endpoint = [p \in Procs |-> None]
    /\ resp = [p \in Procs |-> 0]
    /\ acquired = [p \in Procs |-> 0]
    /\ released = [p \in Procs |-> 0]
    /\ parser_calls = [p \in Procs |-> 0]
    /\ authorization = [of |-> 0, header |-> <<>>]
    /\ output_dir = {}
    /\ cleanup_task = [pc |-> "sleeping", calls |-> 0, caught |-> 0,
                       cancelled |-> None]
    /\ result_dir \in Calls

ResolveServer ==
    /\ result_dir.site = "server" /\ result_dir.dir = <<>>
    /\ result_dir' = [result_dir EXCEPT !.dir =
          process_file_bytes_result_dir(result_dir.backend, result_dir.parse_method,
                                        result_dir.stem, result_dir.root)]
    /\ UNCHANGED <<semaphore, tasks, now, pc, file, endpoint, resp, acquired,
                   released, parser_calls, authorization, output_dir, cleanup_task>>

ResolveHfSpace ==
    /\ result_dir.site = "hf_space" /\ result_dir.dir = <<>>
    /\ result_dir' = [result_dir EXCEPT !.dir =
          hf_space_result_dir(result_dir.backend, result_dir.stem, result_dir.root)]
    /\ UNCHANGED <<semaphore, tasks, now, pc, file, endpoint, resp, acquired,
                   released, parser_calls, authorization, output_dir, cleanup_task>>

ResolveZeroGpu ==
    /\ result_dir.site = "zerogpu" /\ result_dir.dir = <<>>
    /\ result_dir' = [result_dir EXCEPT !.dir =
          zerogpu_result_dir(result_dir.backend, result_dir.stem, result_dir.root)]
    /\ UNCHANGED <<semaphore, tasks, now, pc, file, endpoint, resp, acquired,
                   released, parser_calls, authorization, output_dir, cleanup_task>>

ResolveNext ==
    \/ ResolveServer
    \/ ResolveHfSpace
    \/ ResolveZeroGpu

ResolveSpec == ResolveInit /\ [][ResolveNext]_vars

\* The table of result directories, written out: {root}/{stem}/{leaf}.
ResultPath(backend, parse_method, stem, root) ==
    root \o <<"/">> \o stem \o <<"/">> \o
      (IF backend = <<"p", "i", "p", "e", "l", "i", "n", "e">> THEN parse_method
       ELSE IF Len(backend) >= 3 /\ <<backend[1], backend[2], backend[3]>> = <<"v", "l", "m">>
       THEN <<"v", "l", "m">>
       ELSE <<"h", "y", "b", "r", "i", "d", "_">> \o parse_method)

Resolved == result_dir.site # None /\ result_dir.dir # <<>>

out_doc == <<"/", "o", "u", "t", "/", "d", "o", "c", "/">>

\* C24: the server resolves (backend, parse_method, stem, root) to
\* {root}/{stem}/{parse_method} for pipeline, {root}/{stem}/vlm for a backend
\* whose name starts with "vlm", and {root}/{stem}/hybrid_{parse_method}
\* otherwise; (pipeline, auto, doc, /out) gives /out/doc/auto, a vlm-* backend
\* /out/doc/vlm and a hybrid-* backend with auto /out/doc/hybrid_auto.
C24_ResultPathTable ==
    (Resolved /\ result_dir.site = "server") =>
        /\ result_dir.dir = ResultPath(result_dir.backend, result_dir.parse_method,
                                       result_dir.stem, result_dir.root)
        /\ (result_dir.stem = <<"d", "o", "c">> /\ result_dir.root = <<"/", "o", "u", "t">>
            /\ result_dir.parse_method = auto) =>
              /\ result_dir.backend = pipeline =>
                    result_dir.dir = out_doc \o <<"a", "u", "t", "o">>
              /\ result_dir.backend \in {vlm_auto_engine, vlm_http_client} =>
                    result_dir.dir = out_doc \o <<"v", "l", "m">>
              /\ result_dir.backend \in {hybrid_auto_engine, hybrid_http_client} =>
                    result_dir.dir = out_doc \o <<"h", "y", "b", "r", "i", "d", "_", "a", "u", "t", "o">>

\* The server resolved a hybrid-http-client parse run with ocr to
\* /out/doc/hybrid_ocr.
C24_Witness ==
    /\ Resolved /\ result_dir.site = "server"
    /\ result_dir.backend = hybrid_http_client /\ result_dir.parse_method = ocr
    /\ result_dir.dir = out_doc \o <<"h", "y", "b", "r", "i", "d", "_", "o", "c", "r">>

C26_ScratchRemoved ==
    /\ \A p \in Procs :
          /\ p \in output_dir => pc[p] = "parsing" /\ Holds(p)
          /\ pc[p] = "done" => p \notin output_dir
    /\ output_dir \subseteq Procs
    /\ InFlight = {} => output_dir = {}

\* A synchronous parse ended with 500 and a background parse ended Failed
\* after the parser raised; both had a directory and neither has one now,
\* while a third parse is in the parser with its directory.
C26_Witness ==
    \E r \in SyncReqs, a \in AsyncReqs, q \in Procs :
        /\ pc[r] = "done" /\ resp[r] = 500 /\ parser_calls[r] = 1
        /\ pc[a] = "done" /\ parser_calls[a] = 1
        /\ a \in DOMAIN tasks /\ tasks[a].status = FAILED
        /\ output_dir = {q}

\* C27: a background job writes Processing with progress 0.1 before it asks
\* for a permit (it holds none and waits for none when it writes, and its
\* record shows that write when it asks); it writes progress 0.3 only while
\* it holds a permit and before the parser is invoked, and the parser is
\* invoked only after that write; it writes Completed, with progress 1.0
\* and the result, only after its one parser call has returned successfully.
C27_JobStepOrder ==
    [][\A a \in AsyncReqs :
        LET had == a \in DOMAIN tasks
            has == a \in DOMAIN tasks'
        IN  /\ (had /\ has /\ tasks'[a].status = PROCESSING
                 /\ tasks[a].status # PROCESSING) =>
                  /\ tasks[a].status = PENDING /\ tasks'[a].progress = 10
                  /\ acquired[a] = 0 /\ acquired'[a] = 0
                  /\ a \notin Waiters /\ a \notin Waiters'
            /\ (acquired'[a] # acquired[a] \/ (a \notin Waiters /\ a \in Waiters')) =>
                  (had => tasks[a].status = PROCESSING /\ tasks[a].progress = 10)
            /\ (had /\ has /\ tasks'[a].progress = 30 /\ tasks[a].progress # 30) =>
                  /\ tasks[a].progress = 10
                  /\ Holds(a) /\ acquired'[a] > released'[a]
                  /\ parser_calls[a] = 0 /\ parser_calls'[a] = 0
            /\ parser_calls'[a] # parser_calls[a] =>
                  /\ Holds(a)
                  /\ had => tasks[a].status = PROCESSING /\ tasks[a].progress = 30
            /\ (pc'[a] = "completing" /\ pc[a] # "completing") =>
                  pc[a] = "parsing" /\ parser_calls[a] = 1
            /\ (had /\ has /\ tasks'[a].status = COMPLETED
                 /\ tasks[a].status # COMPLETED) =>
                  /\ pc[a] = "completing" /\ parser_calls[a] = 1
                  /\ tasks[a].status = PROCESSING /\ tasks[a].progress = 30
                  /\ tasks'[a].progress = 100 /\ tasks'[a].result # None]_vars

\* One job went through all its steps and is Completed with progress 1.0
\* and its result; another has written Processing 0.1 and waits for a
\* permit; a third party holds the permits.
C27_Witness ==
    \E a, b \in AsyncReqs :
        /\ a \in DOMAIN tasks /\ tasks[a].status = COMPLETED
        /\ tasks[a].progress = 100 /\ tasks[a].result # None
        /\ parser_calls[a] = 1 /\ pc[a] = "done"
        /\ b \in DOMAIN tasks /\ tasks[b].status = PROCESSING
        /\ tasks[b].progress = 10 /\ pc[b] = "waiting" /\ b \in Waiters

\* C28: a record leaves the store only in a step of the sweep (no request
\* and no job moves in that step) and only if now - created_at > TTL; a
\* record changes only in a step of the running job of its own id, which
\* touches no other record and leaves task_id and created_at alone; a
\* record appears only for a /parse_async request being accepted, which
\* touches no other record; a step of a synchronous request leaves the
\* store as it is.
C28_RecordFrame ==
    [][/\ \A id \in DOMAIN tasks :
            /\ id \notin DOMAIN tasks' =>
                  /\ now - fromisoformat(tasks[id].created_at) > TASK_EXPIRE_HOURS
                  /\ \A x \in DOMAIN tasks' : x \in DOMAIN tasks /\ tasks'[x] = tasks[x]
                  /\ UNCHANGED <<pc, semaphore, acquired, released, resp,
                                 parser_calls, file, output_dir>>
            /\ (id \in DOMAIN tasks' /\ tasks'[id] # tasks[id]) =>
                  /\ id \in AsyncReqs
                  /\ pc[id] \notin {"idle", "done"} /\ pc'[id] # pc[id]
                  /\ \A q \in Procs \ {id} : pc'[q] = pc[q]
                  /\ \A x \in DOMAIN tasks \ {id} :
                        x \in DOMAIN tasks' /\ tasks'[x] = tasks[x]
                  /\ tasks'[id].created_at = tasks[id].created_at
                  /\ tasks'[id].task_id = id
       /\ \A id \in DOMAIN tasks' \ DOMAIN tasks :
            /\ id \in AsyncReqs /\ pc[id] = "idle" /\ pc'[id] = "scheduled"
            /\ \A x \in DOMAIN tasks : x \in DOMAIN tasks' /\ tasks'[x] = tasks[x]
       /\ (\E r \in SyncReqs : pc'[r] # pc[r]) => tasks' = tasks]_vars

\* One job is over and its record has been swept; the record of another
\* job that completed is still in the store, and a synchronous parse has
\* been answered.
C28_Witness ==
    \E a, b \in AsyncReqs, r \in SyncReqs :
        /\ resp[a] = 200 /\ pc[a] = "done" /\ a \notin DOMAIN tasks
        /\ pc[b] = "done" /\ b \in DOMAIN tasks /\ tasks[b].status = COMPLETED
        /\ pc[r] = "done" /\ resp[r] = 200

\* An accepted task whose record the sweep has removed.
Gone(a) == resp[a] = 200 /\ a \notin DOMAIN tasks

\* C29: once the sweep has removed the record of a task, also of one whose
\* job is still pending or running, every step of that job leaves the store
\* as it is (its updates are no-ops), the record never comes back, every
\* poll of the id answers 404, and under fair scheduling the job runs to
\* its end and gives back the permit it holds or obtains.
C29_SweptWhileRunning ==
    /\ [][\A a \in AsyncReqs :
            Gone(a) =>
                /\ resp'[a] = 200 /\ a \notin DOMAIN tasks'
                /\ pc'[a] # pc[a] => tasks' = tasks]_vars
    /\ [](\A a \in AsyncReqs :
            Gone(a) =>
                /\ get_task_status(tasks, a) = [code |-> 404]
                /\ pc[a] = "done" => acquired[a] = released[a])
    /\ \A a \in AsyncReqs :
          (Gone(a) /\ pc[a] # "done") ~> (Gone(a) /\ pc[a] = "done" /\ ~Holds(a))

\* The records of two jobs were swept before the jobs ended: one has been
\* through the parser and its success write and still holds its permit,
\* the other is waiting for a permit.
C29_Witness ==
    \E a, b \in AsyncReqs :
        /\ Gone(a) /\ pc[a] = "exiting" /\ Holds(a) /\ parser_calls[a] = 1
        /\ Gone(b) /\ pc[b] = "waiting"

\* C30: a record that shows Failed belongs to a job that holds no permit and
\* waits for none: the Failed write is made after the job has given its
\* permit back, so a poll that answers Failed finds the slot returned; the
\* Completed write is made by a job that holds its permit and still holds
\* it after the write.
C30_FailedAfterRelease ==
    /\ [](\A a \in AsyncReqs :
            get_task_status(tasks, a).code = 200 =>
                (get_task_status(tasks, a).status = FAILED =>
                    /\ ~Holds(a) /\ acquired[a] = released[a]
                    /\ a \notin Waiters
                    /\ a \notin Holders))
    /\ [][\A a \in AsyncReqs :
            (a \in DOMAIN tasks /\ a \in DOMAIN tasks') =>
                /\ (tasks[a].status # FAILED /\ tasks'[a].status = FAILED) =>
                      /\ acquired[a] = 1 /\ released[a] = 1
                      /\ acquired'[a] = 1 /\ released'[a] = 1
                /\ (tasks[a].status # COMPLETED /\ tasks'[a].status = COMPLETED) =>
                      /\ Holds(a)
                      /\ acquired'[a] > released'[a]]_vars

\* One job is Failed and its permit is back; another has written Completed
\* and has not yet left `async with`: its permit is the only one out.
C30_Witness ==
    \E a, b \in AsyncReqs :
        /\ a \in DOMAIN tasks /\ tasks[a].status = FAILED
        /\ acquired[a] = 1 /\ released[a] = 1
        /\ b \in DOMAIN tasks /\ tasks[b].status = COMPLETED
        /\ Holds(b) /\ pc[b] = "exiting"
        /\ semaphore.value = MAX_CONCURRENT - 1

====
